---- MODULE Spec2Model ----
(***************************************************************************)
(* Model of fetch_from_mlflow.py: the retry loop with_retries, the         *)
(* resolution of the latest registered version (get_latest_version) and    *)
(* the idempotent artifact download with REST fallback                     *)
(* (download_artifact_if_needed) together with the local version marker.   *)
(*                                                                         *)
(* Three specifications share the retry loop:                              *)
(*   Spec         with_retries driven with an arbitrary operation          *)
(*   SpecLatest   get_latest_version against an arbitrary registry         *)
(*   SpecDownload sequences of download_artifact_if_needed calls           *)
(***************************************************************************)
EXTENDS Integers, Sequences, FiniteSets, TLC

\* ---------------------------------------------------------------- bounds
MaxRetries == 5
MaxBaseDelay == 2
MaxMaxDelay == 10
MaxVerLen == 2
MaxVersions == 2

\* ------------------------------------------------------------- constants
DefaultRetries == 5
DefaultBaseDelay == 1
DefaultMaxDelay == 10

LOCAL_DIR == <<".", "downloaded_models">>
ARTIFACT_SUBPATH == "random_forest_model"

\* os.path.join(dir, name): a path is the sequence of its components
PathJoin(dir, name) == Append(dir, name)

VERSION_FILE == PathJoin(LOCAL_DIR, "latest_version.txt")

VARIABLES
    func,        \* the closure handed to with_retries ("none" when idle)
    retries,     \* with_retries parameters
    base_delay,
    max_delay,
    i,           \* loop variable of `for i in range(retries)`
    calls,       \* number of invocations of func in this with_retries run
    sleeps,      \* the arguments of time.sleep, in order
    history,     \* outcome of each invocation: "ok", "retriable", "fatal"
    status,      \* "idle", "running", "returned", "raised"
    error,       \* the exception that left the top-level call
    result,      \* the value the top-level call returned
    registry,    \* what client.get_registered_model answers
    marker,      \* contents of VERSION_FILE, or NoFile
    artifact,    \* what is stored at LOCAL_DIR/ARTIFACT_SUBPATH, or NoArtifact
    version_obj, \* argument of the running download_artifact_if_needed
    net,         \* network fetches of the current download call
    fetched,     \* the strategy whose attempt returned in the current call
    before,      \* marker when the current download call started
    prev         \* the previous completed download call

vars == <<func, retries, base_delay, max_delay, i, calls, sleeps, history,
          status, error, result, registry, marker, artifact, version_obj,
          net, fetched, before, prev>>

diskVars == <<marker, artifact>>
downloadVars == <<version_obj, net, fetched, before, prev>>

NoFile == <<"absent">>
NoValue == <<"none">>
\* no download_artifact_if_needed call has been made
NoVersion == [version |-> <<>>, run_id |-> <<>>]
\* nothing is stored at the artifact path
NoArtifact == [run_id |-> <<>>, complete |-> FALSE]
NoCall == [version |-> <<>>, ok |-> FALSE, path |-> <<>>]
NoRegistry == [registered |-> FALSE, latest_versions |-> <<>>]

Min(a, b) == IF a <= b THEN a ELSE b

\* ------------------------------------------------------------ with_retries
\* range(retries) one element too long
HasNextOffByOne(k, n) == k <= n

\* `for i in range(retries)`: the loop has another iteration
HasNext(k, n) == k < n

\* the delay without the max_delay cap
WaitUncapped(b, m, k) == b * (2 ^ k)

\* wait = min(max_delay, base_delay * (2 ** i))
Wait(b, m, k) == Min(m, b * (2 ^ k))

\* entry of with_retries(f, retries=n, base_delay=b, max_delay=m)
RetryEnter(f, n, b, m) ==
    /\ func' = f
    /\ retries' = n
    /\ base_delay' = b
    /\ max_delay' = m
    /\ i' = 0
    /\ calls' = 0
    /\ sleeps' = <<>>
    /\ history' = <<>>
    /\ status' = "running"
    /\ error' = "none"
    /\ result' = NoValue

\* one iteration in which func() raises: except Exception -> sleep(wait)
RetryCatch(kind) ==
    /\ status = "running"
    /\ HasNext(i, retries)
    /\ calls' = calls + 1
    /\ history' = Append(history, kind)
    /\ sleeps' = Append(sleeps, Wait(base_delay, max_delay, i))
    /\ i' = i + 1
    /\ UNCHANGED <<func, retries, base_delay, max_delay>>

\* one iteration in which func() returns: `return func()`
RetryTry ==
    /\ status = "running"
    /\ HasNext(i, retries)
    /\ calls' = calls + 1
    /\ history' = Append(history, "ok")
    /\ UNCHANGED <<func, retries, base_delay, max_delay, i, sleeps>>

\* the loop is over: raise RuntimeError("Max retries reached.")
RetryExhausted ==
    /\ status = "running"
    /\ ~HasNext(i, retries)

\* ------------------------------------------- with_retries on any operation
Finished == status \in {"idle", "returned", "raised"}

CallWithRetries ==
    /\ Finished
    /\ \E n \in 0..MaxRetries, b \in 0..MaxBaseDelay, m \in 0..MaxMaxDelay :
          RetryEnter("op", n, b, m)
    /\ UNCHANGED <<registry, diskVars, downloadVars>>

OpReturns ==
    /\ func = "op"
    /\ RetryTry
    /\ status' = "returned"
    /\ result' = <<"value">>
    /\ error' = "none"
    /\ UNCHANGED <<registry, diskVars, downloadVars>>

OpRaises ==
    /\ func = "op"
    /\ \E kind \in {"retriable", "fatal"} : RetryCatch(kind)
    /\ UNCHANGED <<status, error, result, registry, diskVars, downloadVars>>

OpExhausted ==
    /\ func = "op"
    /\ RetryExhausted
    /\ status' = "raised"
    /\ error' = "RuntimeError"
    /\ result' = NoValue
    /\ UNCHANGED <<func, retries, base_delay, max_delay, i, calls, sleeps,
                   history>>
    /\ UNCHANGED <<registry, diskVars, downloadVars>>

\* ------------------------------------------------- properties of with_retries
Failures == {j \in 1..Len(history) : history[j] # "ok"}
AllFatal == history # <<>> /\ \A j \in 1..Len(history) : history[j] = "fatal"
AllFailed == \A j \in 1..Len(history) : history[j] # "ok"
NonDecreasing(s) == \A j \in 1..(Len(s) - 1) : s[j] <= s[j + 1]

\* C1: an operation that always raises a fatal (non-retriable) error is
\* invoked exactly once and its failure is propagated at once, with no sleep.
C1_FatalRaisedAtOnce ==
    (func = "op" /\ AllFatal) =>
        (calls = 1 /\ sleeps = <<>> /\ status = "raised")

\* C5: when the operation fails exactly k < retries times and then succeeds,
\* with_retries returns the operation's value, has slept exactly k times, and
\* the k delays are non-decreasing and none exceeds max_delay.
C5_SleepsBeforeSuccess ==
    (func = "op" /\ status = "returned") =>
        /\ result = <<"value">>
        /\ Cardinality(Failures) = calls - 1
        /\ calls - 1 < retries
        /\ Len(sleeps) = calls - 1
        /\ NonDecreasing(sleeps)
        /\ \A j \in 1..Len(sleeps) : sleeps[j] <= max_delay

\* C5 witness: success after three failures, the last delay capped.
C5_Witness ==
    /\ func = "op"
    /\ status = "returned"
    /\ Len(sleeps) = 3
    /\ sleeps[1] < sleeps[2]
    /\ sleeps[3] = max_delay
    /\ base_delay * 4 > max_delay

\* C6: func is invoked at most `retries` times, and once it has been invoked
\* `retries` times with_retries makes no further iteration: it has returned
\* or raised, or the loop is over and the raise is the only step left.
C6_AtMostRetriesCalls ==
    func = "op" =>
        /\ calls <= retries
        /\ Len(history) = calls
        /\ (calls = retries /\ status = "running") => ~(i < retries)

\* C6 witness: every one of several attempts was used, then the call raised.
C6_Witness ==
    /\ func = "op"
    /\ status = "raised"
    /\ retries >= 3
    /\ calls = retries
    /\ \E j \in 1..Len(history) : history[j] = "retriable"

\* C7: when all `retries` attempts fail, the failure is propagated right after
\* the last failed attempt, so there are retries - 1 sleeps in total.
C7_NoSleepAfterLastFailure ==
    (func = "op" /\ status = "raised" /\ retries >= 1 /\ AllFailed
        /\ calls = retries) =>
        Len(sleeps) = retries - 1

\* ------------------------------------------------------ get_latest_version
Digits == {"0", "1", "2"}

\* the version strings of a registry: positive integers in decimal
VersionStrings ==
    {s \in UNION {[1..n -> Digits] : n \in 1..MaxVerLen} : s[1] # "0"}

DigitVal(c) ==
    CASE c = "0" -> 0 [] c = "1" -> 1 [] c = "2" -> 2 [] c = "3" -> 3
      [] c = "4" -> 4 [] c = "5" -> 5 [] c = "6" -> 6 [] c = "7" -> 7
      [] c = "8" -> 8 [] c = "9" -> 9

RECURSIVE IntOf(_)
\* int(s) of a decimal string
IntOf(s) ==
    IF s = <<>> THEN 0
    ELSE 10 * IntOf(SubSeq(s, 1, Len(s) - 1)) + DigitVal(s[Len(s)])

RECURSIVE LexRank(_, _)
\* the rank of s in the lexicographic order of strings of at most w digits
LexRank(s, w) ==
    IF w = 0 THEN 0
    ELSE IF s = <<>> THEN 0
    ELSE (DigitVal(s[1]) + 1) * (11 ^ (w - 1)) + LexRank(Tail(s), w - 1)

\* a ModelVersion of the registry: its version string and its run
ModelVersion(s) == [version |-> s, run_id |-> <<"run">> \o s]

\* the versions compared as strings
VersionKeyLex(v) == LexRank(v.version, MaxVerLen)

\* key=lambda v: int(v.version)
VersionKey(v) == IntOf(v.version)

\* max(versions, key=...): the first element whose key is greatest
PyMax(versions) ==
    LET j == CHOOSE j \in 1..Len(versions) :
                /\ \A k \in 1..Len(versions) :
                      VersionKey(versions[k]) <= VersionKey(versions[j])
                /\ \A k \in 1..(j - 1) :
                      VersionKey(versions[k]) < VersionKey(versions[j])
    IN  versions[j]

Listings ==
    UNION {[1..n -> {ModelVersion(s) : s \in VersionStrings}] :
              n \in 0..MaxVersions}

Registries ==
    {NoRegistry} \cup
    {[registered |-> TRUE, latest_versions |-> l] : l \in Listings}

\* get_registered_model raises, or latest_versions is empty
NotFound == ~registry.registered \/ registry.latest_versions = <<>>

CallGetLatestVersion ==
    /\ Finished
    /\ RetryEnter("_call", DefaultRetries, DefaultBaseDelay, DefaultMaxDelay)
    /\ UNCHANGED <<registry, diskVars, downloadVars>>

\* _call returns max(versions, ...)
LatestReturns ==
    /\ func = "_call"
    /\ ~NotFound
    /\ RetryTry
    /\ status' = "returned"
    /\ result' = PyMax(registry.latest_versions)
    /\ error' = "none"
    /\ UNCHANGED <<registry, diskVars, downloadVars>>

\* _call raises: the registry is unreachable, or answers not found
LatestRaises ==
    /\ func = "_call"
    /\ \/ RetryCatch("retriable")
       \/ NotFound /\ RetryCatch("fatal")
    /\ UNCHANGED <<status, error, result, registry, diskVars, downloadVars>>

LatestExhausted ==
    /\ func = "_call"
    /\ RetryExhausted
    /\ status' = "raised"
    /\ error' = "RuntimeError"
    /\ result' = NoValue
    /\ UNCHANGED <<func, retries, base_delay, max_delay, i, calls, sleeps,
                   history>>
    /\ UNCHANGED <<registry, diskVars, downloadVars>>

NextLatest ==
    CallGetLatestVersion \/ LatestReturns \/ LatestRaises \/ LatestExhausted

\* ------------------------------------------ properties of get_latest_version
Listed == {registry.latest_versions[j] : j \in 1..Len(registry.latest_versions)}

\* C4: for a non-empty listing get_latest_version returns a listed version
\* whose integer value is the greatest of the listing.
C4_LatestIsIntegerMax ==
    (func = "_call" /\ status = "returned") =>
        /\ result \in Listed
        /\ \A v \in Listed : IntOf(v.version) <= IntOf(result.version)

\* C4 witness: "10" is returned from a listing whose lexicographically
\* greatest version is "2".
C4_Witness ==
    /\ func = "_call"
    /\ status = "returned"
    /\ result.version = <<"1", "0">>
    /\ \E v \in Listed : v.version = <<"2">>
    /\ Len(registry.latest_versions) >= 2

\* C8: when the model is unregistered or has no version, get_latest_version
\* fails with the not-found error itself and the registry is not queried
\* again after it answered not found.
C8_NotFoundSurfaced ==
    (func = "_call" /\ status = "raised" /\ NotFound
        /\ \E j \in 1..Len(history) : history[j] = "fatal") =>
        /\ error = "MlflowException"
        /\ history[Len(history)] = "fatal"
        /\ \A j \in 1..(Len(history) - 1) : history[j] # "fatal"

\* ------------------------------------------------------ the version marker
Whitespace == {" ", "\n", "\t"}

RECURSIVE LStrip(_)
LStrip(s) ==
    IF s # <<>> /\ s[1] \in Whitespace THEN LStrip(Tail(s)) ELSE s

RECURSIVE RStrip(_)
RStrip(s) ==
    IF s # <<>> /\ s[Len(s)] \in Whitespace
    THEN RStrip(SubSeq(s, 1, Len(s) - 1)) ELSE s

\* str.strip()
Strip(s) == LStrip(RStrip(s))

\* str(version): the version of a ModelVersion is already a string
Str(version) == version

\* the marker is never found equal to the version
IsAlreadyDownloadedNever(version) == FALSE

\* is_already_downloaded(version), read from the marker on disk
IsAlreadyDownloaded(version) ==
    IF marker = NoFile THEN FALSE ELSE Strip(marker) = Str(version)

\* save_version(version): the contents of VERSION_FILE afterwards
SaveVersion(version) == Str(version)

\* ---------------------------------------------- download_artifact_if_needed
\* What can fail is what goes over the network and the writing of the
\* artifact; writing the marker and printing succeed.
\* the versions handed to download_artifact_if_needed
Targets == {ModelVersion(s) : s \in {<<"1">>, <<"2">>, <<"1", "0">>}}

\* what mlflow.artifacts.download_artifacts(artifact_path, dst_path) returns:
\* the place under dst_path where it put the artifact
DownloadArtifactsPath(dst_path, artifact_path) == PathJoin(dst_path, artifact_path)

Complete(v) == [run_id |-> v.run_id, complete |-> TRUE]
Partial(v) == [run_id |-> v.run_id, complete |-> FALSE]

\* the call that has just finished, remembered when the next one starts
LastCall ==
    IF version_obj = NoVersion THEN NoCall
    ELSE [version |-> version_obj.version, ok |-> status = "returned",
          path |-> result]

\* entry of download_artifact_if_needed
DownloadEnter(v) ==
    /\ Finished
    /\ version_obj' = v
    /\ before' = marker
    /\ net' = [primary |-> 0, rest |-> 0]
    /\ fetched' = "none"
    /\ prev' = LastCall
    /\ UNCHANGED <<registry, diskVars>>

\* the marker names the version: return the local path, fetch nothing
CallDownloadSkip ==
    \E v \in Targets :
        /\ IsAlreadyDownloaded(v.version)
        /\ DownloadEnter(v)
        /\ func' = "none"
        /\ status' = "returned"
        /\ result' = PathJoin(LOCAL_DIR, ARTIFACT_SUBPATH)
        /\ error' = "none"
        /\ i' = 0
        /\ calls' = 0
        /\ sleeps' = <<>>
        /\ history' = <<>>
        /\ UNCHANGED <<retries, base_delay, max_delay>>

\* otherwise: path = with_retries(_download_python_api)
CallDownloadFetch ==
    \E v \in Targets :
        /\ ~IsAlreadyDownloaded(v.version)
        /\ DownloadEnter(v)
        /\ RetryEnter("_download_python_api", DefaultRetries,
                      DefaultBaseDelay, DefaultMaxDelay)

\* an attempt of the registry client fails and the marker is written anyway
PrimaryRaisesSaving ==
    /\ func = "_download_python_api"
    /\ RetryCatch("retriable")
    /\ net' = [net EXCEPT !.primary = @ + 1]
    /\ marker' = SaveVersion(version_obj.version)
    /\ UNCHANGED <<status, error, result, registry, artifact, version_obj,
                   fetched, before, prev>>

\* an attempt of the registry client fails, before or after it wrote a part
\* of the artifact
PrimaryRaises ==
    /\ func = "_download_python_api"
    /\ RetryCatch("retriable")
    /\ net' = [net EXCEPT !.primary = @ + 1]
    /\ artifact' \in {artifact, Partial(version_obj)}
    /\ UNCHANGED <<status, error, result, registry, marker, version_obj,
                   fetched, before, prev>>

\* an attempt of the registry client returns: save_version, return path
PrimaryReturns ==
    /\ func = "_download_python_api"
    /\ RetryTry
    /\ net' = [net EXCEPT !.primary = @ + 1]
    /\ artifact' = Complete(version_obj)
    /\ fetched' = "_download_python_api"
    /\ marker' = SaveVersion(version_obj.version)
    /\ status' = "returned"
    /\ result' = DownloadArtifactsPath(LOCAL_DIR, ARTIFACT_SUBPATH)
    /\ error' = "none"
    /\ UNCHANGED <<registry, version_obj, before, prev>>

\* the fallback is taken as soon as one attempt has failed
PrimaryExhaustedEarly ==
    /\ func = "_download_python_api"
    /\ status = "running"
    /\ i >= 1
    /\ RetryEnter("_download_rest", DefaultRetries, DefaultBaseDelay,
                  DefaultMaxDelay)
    /\ UNCHANGED <<registry, diskVars, downloadVars>>

\* with_retries raises, the handler goes on with
\* path = with_retries(_download_rest)
PrimaryExhausted ==
    /\ func = "_download_python_api"
    /\ RetryExhausted
    /\ RetryEnter("_download_rest", DefaultRetries, DefaultBaseDelay,
                  DefaultMaxDelay)
    /\ UNCHANGED <<registry, diskVars, downloadVars>>

\* _download_rest raises: the request fails or its status is not 200 (nothing
\* written), or writing out_path fails part-way
RestRaises ==
    /\ func = "_download_rest"
    /\ RetryCatch("retriable")
    /\ net' = [net EXCEPT !.rest = @ + 1]
    /\ artifact' \in {artifact, Partial(version_obj)}
    /\ UNCHANGED <<status, error, result, registry, marker, version_obj,
                   fetched, before, prev>>

\* _download_rest returns out_path: save_version, return path
RestReturns ==
    /\ func = "_download_rest"
    /\ RetryTry
    /\ net' = [net EXCEPT !.rest = @ + 1]
    /\ artifact' = Complete(version_obj)
    /\ fetched' = "_download_rest"
    /\ marker' = SaveVersion(version_obj.version)
    /\ status' = "returned"
    /\ result' = PathJoin(LOCAL_DIR, ARTIFACT_SUBPATH)
    /\ error' = "none"
    /\ UNCHANGED <<registry, version_obj, before, prev>>

\* the fallback is exhausted too: RuntimeError leaves the call
RestExhausted ==
    /\ func = "_download_rest"
    /\ RetryExhausted
    /\ status' = "raised"
    /\ error' = "RuntimeError"
    /\ result' = NoValue
    /\ UNCHANGED <<func, retries, base_delay, max_delay, i, calls, sleeps,
                   history, registry, diskVars, downloadVars>>

NextDownload ==
    \/ CallDownloadSkip \/ CallDownloadFetch
    \/ PrimaryRaises \/ PrimaryReturns \/ PrimaryExhausted
    \/ RestRaises \/ RestReturns \/ RestExhausted

\* ---------------------------------- properties of download_artifact_if_needed
InDownload == version_obj # NoVersion
Fetching == func \in {"_download_python_api", "_download_rest"}

\* C2: whenever the marker exists and equals the version of v, the complete
\* artifact of v is at the local path.
C2_MarkerImpliesArtifact ==
    \A v \in Targets :
        (marker # NoFile /\ Strip(marker) = Str(v.version)) =>
            artifact = Complete(v)

C9_MarkerOnlyAfterFetch ==
    /\ (InDownload /\ status = "raised") => marker = before
    /\ (InDownload /\ Fetching /\ fetched = "none") =>
          /\ marker = before
          /\ ~IsAlreadyDownloaded(version_obj.version)

\* C9 witness: a marker written by an earlier call, then a call for another
\* version that failed on all attempts of both strategies after having
\* written a part of the artifact.
C9_Witness ==
    /\ InDownload
    /\ status = "raised"
    /\ before # NoFile
    /\ marker = before
    /\ net.primary = DefaultRetries
    /\ net.rest = DefaultRetries
    /\ artifact = Partial(version_obj)

InitWith(reg) ==
    /\ func = "none"
    /\ retries = DefaultRetries
    /\ base_delay = DefaultBaseDelay
    /\ max_delay = DefaultMaxDelay
    /\ i = 0
    /\ calls = 0
    /\ sleeps = <<>>
    /\ history = <<>>
    /\ status = "idle"
    /\ error = "none"
    /\ result = NoValue
    /\ registry = reg
    /\ marker = NoFile
    /\ artifact = NoArtifact
    /\ version_obj = NoVersion
    /\ net = [primary |-> 0, rest |-> 0]
    /\ fetched = "none"
    /\ before = NoFile
    /\ prev = NoCall

Init == InitWith(NoRegistry)

\* the registry holds any listing, or does not know the model
InitLatest == \E reg \in Registries : InitWith(reg)

Next == CallWithRetries \/ OpReturns \/ OpRaises \/ OpExhausted

Spec == Init /\ [][Next]_vars

SpecLatest == InitLatest /\ [][NextLatest]_vars

SpecDownload == Init /\ [][NextDownload]_vars

====
